---- MODULE Spec2Model ----
(***************************************************************************)
(* The recurrent layer of include/dll/neural/recurrent_layer_impl.hpp:     *)
(* its weights, the training context (sgd_context), forward_batch,         *)
(* backward_batch and compute_gradients (truncated BPTT).                  *)
(*                                                                         *)
(* Scalars are integers.  A vector of n elements is a function on 0..n-1,  *)
(* a matrix a function from its row index to a vector, exactly as the      *)
(* source indexes them (context.output(b)(step - 1)).                      *)
(***************************************************************************)
EXTENDS Integers, FiniteSets, Sequences, TLC

\* Bounds of the explored layer configurations.
MaxT == 3
MaxDim == 2
MaxB == 2

\* size_t arithmetic wraps modulo SIZE_MOD.  The program's modulus is 2^64;
\* the largest modulus TLC's integers hold stands for it.  Only "is the
\* wrapped index inside 0..time_steps-1" is ever asked of the result.
SIZE_MOD == 2147483647

VARIABLES
    time_steps,          \* desc::time_steps      (T)
    sequence_length,     \* desc::sequence_length (S)
    hidden_units,        \* desc::hidden_units    (H)
    batch_size,          \* DBN::batch_size       (B)
    activation_function, \* desc::activation_function
    truncate,            \* the truncation bound of compute_gradients
    w, u,                \* the weights W (H x H) and U (H x S)
    bak_w, bak_u,        \* the backup weights (null unique_ptr = "null")
    input, output, errors, \* the context's buffers
    w_grad, u_grad,      \* the gradients of W and U
    prev_errors,         \* the buffer handed to backward_batch as "output"
    pc,                  \* the last call made on the layer
    aborted,             \* the process died inside a call
    walk                 \* what the last backward time-walk did

vars == <<time_steps, sequence_length, hidden_units, batch_size,
          activation_function, truncate, w, u, bak_w, bak_u, input, output,
          errors, w_grad, u_grad, prev_errors, pc, aborted, walk>>

config == <<time_steps, sequence_length, hidden_units, batch_size,
            activation_function, truncate>>

----------------------------------------------------------------------------
\* Vectors and matrices (the ETL expressions the layer uses).

Idx(n) == 0 .. (n - 1)

Max(a, b) == IF a > b THEN a ELSE b

ZeroVec(n) == [i \in Idx(n) |-> 0]

ZeroMat(r, c) == [i \in Idx(r) |-> ZeroVec(c)]

FillMat(r, c, g) == [i \in Idx(r) |-> [j \in Idx(c) |-> g]]

RECURSIVE SumTo(_, _)
SumTo(f, n) == IF n = 0 THEN 0 ELSE f[n - 1] + SumTo(f, n - 1)

\* m * v, m of r rows and c columns
MatVec(m, v, r, c) ==
    [i \in Idx(r) |-> SumTo([j \in Idx(c) |-> m[i][j] * v[j]], c)]

\* trans(m), m of r rows and c columns
Trans(m, r, c) == [j \in Idx(c) |-> [i \in Idx(r) |-> m[i][j]]]

VecAdd(a, b) == [i \in DOMAIN a |-> a[i] + b[i]]

\* a >> b, the elementwise product
Scale(a, b) == [i \in DOMAIN a |-> a[i] * b[i]]

\* etl::outer(a, b)
Outer(a, b) == [i \in DOMAIN a |-> [j \in DOMAIN b |-> a[i] * b[j]]]

\* m += n
MatAdd(m, n) == [i \in DOMAIN m |-> [j \in DOMAIN m[i] |-> m[i][j] + n[i][j]]]

\* f_activate<activation_function>(v)
f_activate(v) ==
    IF activation_function = "RELU"
    THEN [i \in DOMAIN v |-> Max(v[i], 0)]
    ELSE v

\* f_derivative<activation_function>(o): the derivative, from the output o
f_derivative(o) ==
    IF activation_function = "RELU"
    THEN [i \in DOMAIN o |-> IF o[i] > 0 THEN 1 ELSE 0]
    ELSE [i \in DOMAIN o |-> 1]

\* (n - 1) as a size_t
SizeDec(n) == (n - 1) % SIZE_MOD

----------------------------------------------------------------------------
\* The values the weights and the context are drawn from.

Vals == {-1, 1}

WeightSeeds == {<<1, -1>>, <<2, 1>>}

Pattern(k, a, c) ==
    CASE k % 3 = 0 -> a
      [] k % 3 = 1 -> c
      [] OTHER     -> a + c

\* an r x c weight matrix
Weights(r, c, s) ==
    [i \in Idx(r) |-> [j \in Idx(c) |-> IF j >= i THEN s[1] ELSE s[2]]]

\* a batch of B samples of T steps of n values
Batch(B, T, n, a, c) ==
    [b \in Idx(B) |-> [t \in Idx(T) |-> [k \in Idx(n) |->
        Pattern(2 * b + t + k, a, c)]]]

ZeroBatch(B, T, n) == [b \in Idx(B) |-> [t \in Idx(T) |-> ZeroVec(n)]]

FillBatch(B, T, n, g) ==
    [b \in Idx(B) |-> [t \in Idx(T) |-> [k \in Idx(n) |-> g]]]

NoWalk == [reads |-> {}, iters |-> <<>>, wrapped |-> FALSE]

----------------------------------------------------------------------------
\* forward_batch

\* for (b = 0; b < Batch; ++b) output(b)(0) = f_activate(u * x(b)(0));
RECURSIVE forward_first(_, _, _)
forward_first(out, x, b) ==
    IF b < Cardinality(DOMAIN x)
    THEN forward_first(
            [out EXCEPT ![b][0] =
                f_activate(MatVec(u, x[b][0], hidden_units, sequence_length))],
            x, b + 1)
    ELSE out

\* forward_steps reading the recurrent term at step t instead of t - 1
RECURSIVE forward_steps_same_step(_, _, _, _)
forward_steps_same_step(out, x, b, t) ==
    IF b >= Cardinality(DOMAIN x) THEN out
    ELSE IF t < time_steps
    THEN forward_steps_same_step(
            [out EXCEPT ![b][t] =
                f_activate(VecAdd(
                    MatVec(u, x[b][t], hidden_units, sequence_length),
                    MatVec(w, out[b][t], hidden_units, hidden_units)))],
            x, b, t + 1)
    ELSE forward_steps_same_step(out, x, b + 1, 1)

\* for b: for (t = 1; t < time_steps; ++t)
\*     output(b)(t) = f_activate(u * x(b)(t) + w * output(b)(t - 1));
RECURSIVE forward_steps(_, _, _, _)
forward_steps(out, x, b, t) ==
    IF b >= Cardinality(DOMAIN x) THEN out
    ELSE IF t < time_steps
    THEN forward_steps(
            [out EXCEPT ![b][t] =
                f_activate(VecAdd(
                    MatVec(u, x[b][t], hidden_units, sequence_length),
                    MatVec(w, out[b][t - 1], hidden_units, hidden_units)))],
            x, b, t + 1)
    ELSE forward_steps(out, x, b + 1, 1)

\* the output batch forward_batch(out, x) leaves in out
forward_batch_result(out, x) ==
    LET zeroed == [b \in DOMAIN out |-> [t \in DOMAIN out[b] |->
                      [k \in DOMAIN out[b][t] |-> 0]]]
    IN  forward_steps(forward_first(zeroed, x, 0), x, 0, 1)

forward_batch ==
    /\ ~aborted
    /\ output' = forward_batch_result(output, input)
    /\ pc' = "forward_batch"
    /\ UNCHANGED <<config, w, u, bak_w, bak_u, input, errors, w_grad, u_grad,
                   prev_errors, aborted, walk>>

----------------------------------------------------------------------------
\* backward_batch: the body is a TODO; both arguments are unused.

backward_batch ==
    /\ ~aborted
    /\ pc' = "backward_batch"
    /\ UNCHANGED <<config, w, u, bak_w, bak_u, input, output, errors, w_grad,
                   u_grad, prev_errors, aborted, walk>>

----------------------------------------------------------------------------
\* compute_gradients

\* last_step taken from the sequence length instead of the truncation bound
last_step_of_full_length == Max(time_steps - time_steps, 0)

\* const size_t last_step = std::max(int(time_steps) - int(truncate), 0);
last_step == Max(time_steps - truncate, 0)

\* bptt_walk accumulating U_grad against input(b)(step) instead of
\* input(b)(step - 1)
RECURSIVE bptt_walk_input_at_step(_, _, _, _, _)
bptt_walk_input_at_step(acc, c, b, step, delta_t) ==
    LET prev == SizeDec(step)
        seen == [acc EXCEPT !.reads = @ \cup {prev},
                            !.wrapped = @ \/ (prev > step)]
    IN  IF prev \notin Idx(time_steps)
        THEN [seen EXCEPT !.ub = TRUE]
        ELSE LET next == [seen EXCEPT
                     !.w_grad = MatAdd(@, Outer(delta_t, c.output[b][prev])),
                     !.u_grad = MatAdd(@, Outer(delta_t, c.input[b][step])),
                     !.iters[b] = @ + 1]
                 delta_n == Scale(
                     MatVec(Trans(w, hidden_units, hidden_units), delta_t,
                            hidden_units, hidden_units),
                     f_derivative(c.output[b][prev]))
             IN  IF prev > last_step
                 THEN bptt_walk_input_at_step(next, c, b, prev, delta_n)
                 ELSE next

\* The do { ... } while (step > last_step) of one sample b.  acc holds the
\* gradients so far and the record of the walk; c is the context.  A time
\* index outside 0..time_steps-1 is an out-of-bounds read: the walk is cut
\* there with acc.ub set.
RECURSIVE bptt_walk(_, _, _, _, _)
bptt_walk(acc, c, b, step, delta_t) ==
    LET prev == SizeDec(step)
        seen == [acc EXCEPT !.reads = @ \cup {prev},
                            !.wrapped = @ \/ (prev > step)]
    IN  IF prev \notin Idx(time_steps)
        THEN [seen EXCEPT !.ub = TRUE]
        ELSE LET next == [seen EXCEPT
                     !.w_grad = MatAdd(@, Outer(delta_t, c.output[b][prev])),
                     !.u_grad = MatAdd(@, Outer(delta_t, c.input[b][prev])),
                     !.iters[b] = @ + 1]
                 delta_n == Scale(
                     MatVec(Trans(w, hidden_units, hidden_units), delta_t,
                            hidden_units, hidden_units),
                     f_derivative(c.output[b][prev]))
             IN  IF prev > last_step
                 THEN bptt_walk(next, c, b, prev, delta_n)
                 ELSE next

\* for (size_t b = 0; b < Batch; ++b) { step = time_steps - 1; ... }
RECURSIVE bptt_batch(_, _, _)
bptt_batch(acc, c, b) ==
    IF b >= Cardinality(DOMAIN c.errors) \/ acc.ub THEN acc
    ELSE LET step == time_steps - 1
             delta_t == Scale(c.errors[b][step], f_derivative(c.output[b][step]))
             seen == [acc EXCEPT !.reads = @ \cup {step}]
         IN  bptt_batch(bptt_walk(seen, c, b, step, delta_t), c, b + 1)

\* compute_gradients on the context c, the gradients holding wg and ug before
\* (w_grad = 0; u_grad = 0; then the walk of every sample)
compute_gradients_result(c, wg, ug) ==
    bptt_batch([w_grad  |-> [i \in DOMAIN wg |-> [j \in DOMAIN wg[i] |-> 0]],
                u_grad  |-> [i \in DOMAIN ug |-> [j \in DOMAIN ug[i] |-> 0]],
                reads   |-> {},
                iters   |-> [b \in DOMAIN c.errors |-> 0],
                wrapped |-> FALSE,
                ub      |-> FALSE],
               c, 0)

context == [input |-> input, output |-> output, errors |-> errors]

\* what the gradient buffers may hold when the walk has read out of bounds
Garbage(r, c) == {FillMat(r, c, g) : g \in {0, 1}}

\* compute_gradients accumulating the W gradient into w itself
compute_gradients_into_w ==
    /\ ~aborted
    /\ \E r \in {compute_gradients_result(context, w_grad, u_grad)} :
           /\ walk' = [reads |-> r.reads, iters |-> r.iters, wrapped |-> r.wrapped]
           /\ IF r.ub
              THEN /\ aborted' = TRUE
                   /\ w' \in Garbage(hidden_units, hidden_units)
                   /\ u_grad' \in Garbage(hidden_units, sequence_length)
              ELSE /\ aborted' = FALSE
                   /\ w' = MatAdd(w, r.w_grad)
                   /\ u_grad' = r.u_grad
    /\ pc' = "compute_gradients"
    /\ UNCHANGED <<config, w_grad, u, bak_w, bak_u, input, output, errors,
                   prev_errors>>

compute_gradients ==
    /\ ~aborted
    /\ \E r \in {compute_gradients_result(context, w_grad, u_grad)} :
           /\ walk' = [reads |-> r.reads, iters |-> r.iters, wrapped |-> r.wrapped]
           /\ IF r.ub
              THEN /\ aborted' = TRUE
                   /\ w_grad' \in Garbage(hidden_units, hidden_units)
                   /\ u_grad' \in Garbage(hidden_units, sequence_length)
              ELSE /\ aborted' = FALSE
                   /\ w_grad' = r.w_grad
                   /\ u_grad' = r.u_grad
    /\ pc' = "compute_gradients"
    /\ UNCHANGED <<config, w, u, bak_w, bak_u, input, output, errors,
                   prev_errors>>

----------------------------------------------------------------------------
\* The layer and its context, constructed and populated.

InitLayer ==
    /\ time_steps \in 1 .. MaxT
    /\ sequence_length \in 1 .. MaxDim
    /\ hidden_units \in 1 .. MaxDim
    /\ batch_size \in 1 .. MaxB
    /\ activation_function \in {"IDENTITY", "RELU"}
    /\ \E s \in WeightSeeds : w = Weights(hidden_units, hidden_units, s)
    /\ \E s \in WeightSeeds : u = Weights(hidden_units, sequence_length, s)
    /\ bak_w = "null"
    /\ bak_u = "null"
    /\ \E a \in Vals, c \in Vals :
          input = Batch(batch_size, time_steps, sequence_length, a, c)
    /\ output = ZeroBatch(batch_size, time_steps, hidden_units)
    /\ \E a \in Vals, c \in Vals :
          errors = Batch(batch_size, time_steps, hidden_units, a, c)
    /\ w_grad = ZeroMat(hidden_units, hidden_units)
    /\ u_grad = ZeroMat(hidden_units, sequence_length)
    /\ prev_errors = ZeroBatch(batch_size, time_steps, sequence_length)
    /\ pc = "constructed"
    /\ aborted = FALSE
    /\ walk = NoWalk

\* const size_t truncate = time_steps;
Init == InitLayer /\ truncate = time_steps

\* the walk with its truncation bound configurable
InitTrunc == InitLayer /\ truncate \in 1 .. time_steps

Next == forward_batch \/ backward_batch \/ compute_gradients

Spec == Init /\ [][Next]_vars

SpecTrunc == InitTrunc /\ [][Next]_vars

----------------------------------------------------------------------------
\* Reference quantities the properties are stated with.

IsTwoSteps == time_steps >= 2

Returned(call) == pc = call /\ ~aborted

UX(b, t) == MatVec(u, input[b][t], hidden_units, sequence_length)

WH(b, t) == MatVec(w, output[b][t], hidden_units, hidden_units)

\* the sum over the samples b and the steps t in from..time_steps-1 of
\* outer(d(b, t), v(b, t)), a rows x cols matrix
SumOuter(d(_, _), v(_, _), from, rows, cols) ==
    [i \in Idx(rows) |-> [j \in Idx(cols) |->
        SumTo([b \in Idx(batch_size) |->
            SumTo([t \in Idx(time_steps) |->
                IF t >= from THEN d(b, t)[i] * v(b, t)[j] ELSE 0],
                time_steps)],
            batch_size)]]

\* the loss gradient at h[b][t] for identity activation and the loss
\* sum over b of errors[b][T-1] . h[b][T-1]
RECURSIVE delta_loss(_, _)
delta_loss(b, t) ==
    IF t = time_steps - 1 THEN errors[b][t]
    ELSE MatVec(Trans(w, hidden_units, hidden_units), delta_loss(b, t + 1),
                hidden_units, hidden_units)

\* the delta of the backward time-walk at step t
RECURSIVE delta_bptt(_, _)
delta_bptt(b, t) ==
    IF t = time_steps - 1
    THEN Scale(errors[b][t], f_derivative(output[b][t]))
    ELSE Scale(MatVec(Trans(w, hidden_units, hidden_units),
                      delta_bptt(b, t + 1), hidden_units, hidden_units),
               f_derivative(output[b][t]))

OutputBefore(b, t) == output[b][t - 1]

InputBefore(b, t) == input[b][t - 1]

InputAt(b, t) == input[b][t]

OutputIsForward ==
    output = forward_batch_result(output, input)

\* the context holding the samples bs (a sequence of sample indices) of c
SubContext(c, bs) ==
    [input  |-> [k \in Idx(Len(bs)) |-> c.input[bs[k + 1]]],
     output |-> [k \in Idx(Len(bs)) |-> c.output[bs[k + 1]]],
     errors |-> [k \in Idx(Len(bs)) |-> c.errors[bs[k + 1]]]]

Grads(r) == <<r.w_grad, r.u_grad>>

----------------------------------------------------------------------------
\* C1: after forward_batch, for every sample b, output[b][0] =
\* activation(U * x[b][0]) with no recurrent term, and for t in 1..T-1
\* output[b][t] = activation(U * x[b][t] + W * output[b][t-1]); output[b] is
\* what forward_batch computes from x[b] alone, whatever output held before.
ForwardRecurrence ==
    Returned("forward_batch") =>
        \A b \in Idx(batch_size) :
            /\ output[b][0] = f_activate(UX(b, 0))
            /\ \A t \in 1 .. (time_steps - 1) :
                  output[b][t] = f_activate(VecAdd(UX(b, t), WH(b, t - 1)))
            /\ \A g \in {0, 1} :
                  forward_batch_result(
                      FillBatch(1, time_steps, hidden_units, g),
                      SubContext(context, <<b>>).input)[0] = output[b]

ForwardRecurrenceWitness ==
    /\ Returned("forward_batch")
    /\ time_steps = 3
    /\ batch_size = 2
    /\ hidden_units = 2
    /\ \A b \in Idx(batch_size) :
          /\ WH(b, 1) # ZeroVec(hidden_units)
          /\ output[b][2] # UX(b, 2)
    /\ output[0] # output[1]

\* C2: (identity activation, T >= 2, output produced by forward_batch from
\* input with the current weights) after compute_gradients W_grad is dL/dW
\* = sum over b, t in 1..T-1 of outer(delta[b][t], h[b][t-1]) and U_grad is
\* dL/dU = sum over b, t in 0..T-1 of outer(delta[b][t], x[b][t]).
GradientsAreLossGradients ==
    (/\ Returned("compute_gradients")
     /\ activation_function = "IDENTITY"
     /\ IsTwoSteps
     /\ OutputIsForward) =>
        /\ w_grad = SumOuter(delta_loss, OutputBefore, 1,
                             hidden_units, hidden_units)
        /\ u_grad = SumOuter(delta_loss, InputAt, 0,
                             hidden_units, sequence_length)

\* C2, the W_grad half alone.
WGradIsLossGradient ==
    (/\ Returned("compute_gradients")
     /\ activation_function = "IDENTITY"
     /\ IsTwoSteps
     /\ OutputIsForward) =>
        w_grad = SumOuter(delta_loss, OutputBefore, 1,
                          hidden_units, hidden_units)

BatchAdditivity ==
    (pc = "compute_gradients" /\ batch_size = 2) =>
        LET r1 == compute_gradients_result(SubContext(context, <<0>>), w_grad, u_grad)
            r2 == compute_gradients_result(SubContext(context, <<1>>), w_grad, u_grad)
            rs == compute_gradients_result(SubContext(context, <<1, 0>>), w_grad, u_grad)
        IN  /\ ~aborted /\ ~r1.ub /\ ~r2.ub /\ ~rs.ub
            /\ w_grad = MatAdd(r1.w_grad, r2.w_grad)
            /\ u_grad = MatAdd(r1.u_grad, r2.u_grad)
            /\ Grads(rs) = <<w_grad, u_grad>>

\* C4, for the layers of at least two time steps.
BatchAdditivityTwoSteps == IsTwoSteps => BatchAdditivity

\* C5: (identity activation) after backward_batch the buffer it was handed
\* holds, for every sample b, transpose(U) * errors[b][T-1] at step T-1.
BackwardWritesInputError ==
    (Returned("backward_batch") /\ activation_function = "IDENTITY") =>
        \A b \in Idx(batch_size) :
            prev_errors[b][time_steps - 1] =
                MatVec(Trans(u, hidden_units, sequence_length),
                       errors[b][time_steps - 1],
                       sequence_length, hidden_units)

\* C6: forward_batch, backward_batch and compute_gradients leave W, U, bak_W
\* and bak_U as they were; forward_batch writes only its output batch and
\* compute_gradients leaves input, output and errors unchanged.
WeightsAreReadOnly ==
    [][/\ pc' \in {"forward_batch", "backward_batch", "compute_gradients"} =>
            /\ w' = w /\ u' = u /\ bak_w' = bak_w /\ bak_u' = bak_u
       /\ pc' = "forward_batch" =>
            UNCHANGED <<input, errors, w_grad, u_grad, prev_errors>>
       /\ pc' = "compute_gradients" =>
            UNCHANGED <<input, output, errors>>]_vars

WeightsAreReadOnlyWitness ==
    /\ Returned("compute_gradients")
    /\ output # ZeroBatch(batch_size, time_steps, hidden_units)
    /\ w_grad # ZeroMat(hidden_units, hidden_units)
    /\ u_grad # ZeroMat(hidden_units, sequence_length)
    /\ w # ZeroMat(hidden_units, hidden_units)
    /\ bak_w = "null"

\* C7: with the truncation bound T and T >= 2, compute_gradients runs its
\* body T-1 times per sample, for t = T-1 down to 1, and leaves W_grad = sum
\* over b, t in 1..T-1 of outer(delta[b][t], output[b][t-1]) and U_grad =
\* sum over b, t in 1..T-1 of outer(delta[b][t], input[b][t-1]).
FullWalkGradients ==
    (Returned("compute_gradients") /\ truncate = time_steps /\ IsTwoSteps) =>
        /\ w_grad = SumOuter(delta_bptt, OutputBefore, 1,
                             hidden_units, hidden_units)
        /\ u_grad = SumOuter(delta_bptt, InputBefore, 1,
                             hidden_units, sequence_length)
        /\ \A b \in Idx(batch_size) : walk.iters[b] = time_steps - 1
        /\ walk.reads = Idx(time_steps)

\* the scenario T=2, S=1, H=1, identity, U=2, x=[1,1], h[0]=2, errors[1]=1
FullWalkWitness ==
    /\ Returned("compute_gradients")
    /\ time_steps = 2 /\ sequence_length = 1 /\ hidden_units = 1
    /\ batch_size = 1
    /\ activation_function = "IDENTITY"
    /\ u[0][0] = 2
    /\ input[0][0][0] = 1 /\ input[0][1][0] = 1
    /\ output[0][0][0] = 2
    /\ errors[0][1][0] = 1
    /\ w_grad[0][0] = 2
    /\ u_grad[0][0] = 1

\* C8: compute_gradients leaves W_grad and U_grad depending only on the
\* weights and the context, whatever they held before: run again on the same
\* context, from its own result or from any other contents, it leaves them
\* equal.
GradientsDoNotAccumulate ==
    pc = "compute_gradients" =>
        /\ ~aborted
        /\ Grads(compute_gradients_result(context, w_grad, u_grad))
              = <<w_grad, u_grad>>
        /\ \A g \in {0, 1} :
              Grads(compute_gradients_result(context,
                        FillMat(hidden_units, hidden_units, g),
                        FillMat(hidden_units, sequence_length, g)))
                  = <<w_grad, u_grad>>

\* C8, for the layers of at least two time steps.
GradientsDoNotAccumulateTwoSteps == IsTwoSteps => GradientsDoNotAccumulate

\* C9: the gradients compute_gradients leaves are those it leaves on every
\* context that differs only in errors[b][t], t < T-1.
OnlyFinalErrorsMatter ==
    pc = "compute_gradients" =>
        /\ ~aborted
        /\ \A b \in Idx(batch_size), t \in Idx(time_steps - 1),
              k \in Idx(hidden_units), v \in {0, 3} :
              Grads(compute_gradients_result(
                        [context EXCEPT !.errors[b][t][k] = v],
                        w_grad, u_grad))
                  = <<w_grad, u_grad>>

\* C9, for the layers of at least two time steps.
OnlyFinalErrorsMatterTwoSteps == IsTwoSteps => OnlyFinalErrorsMatter

\* C10: for every T > 0 and truncation bound in 1..T, compute_gradients
\* reads context.errors, context.output and context.input only at time steps
\* in 0..T-1, its step counter never wraps below 0, it runs its body at most
\* T-1 times per sample, and for T = 1 it leaves W_grad and U_grad zero.
WalkStaysInBounds ==
    pc = "compute_gradients" =>
        /\ ~aborted
        /\ walk.reads \subseteq Idx(time_steps)
        /\ ~walk.wrapped
        /\ \A b \in Idx(batch_size) : walk.iters[b] <= time_steps - 1
        /\ time_steps = 1 =>
              /\ w_grad = ZeroMat(hidden_units, hidden_units)
              /\ u_grad = ZeroMat(hidden_units, sequence_length)

\* C10, for the layers of at least two time steps.
WalkStaysInBoundsTwoSteps == IsTwoSteps => WalkStaysInBounds

====
